---- MODULE Spec2Model ----
(***************************************************************************)
(* Model of src/main.rs: the Renderer (new / resize / render) and the      *)
(* winit event-loop callback of main that drives it.                       *)
(*                                                                         *)
(* Every event handler is one atomic action (the program is single         *)
(* threaded and a handler runs to its end or panics).  What a handler did  *)
(* is kept in history variables: the event, the state before it, the calls *)
(* it made in order (trace), the values the environment handed to it       *)
(* (inputs), and the result of Renderer::render.                           *)
(***************************************************************************)
EXTENDS Integers, Sequences, FiniteSets, TLC

\* ---- bounds -------------------------------------------------------------
MaxWidth == 2      \* window widths range over 0..MaxWidth
MaxHeight == 1     \* window heights range over 0..MaxHeight
MaxTime == 2       \* readings of the monotonic clock range over 0..MaxTime
MaxDrops == 2      \* the count of consecutive dropped frames saturates here

\* ---- values -------------------------------------------------------------
PhysicalSize == [width : 0..MaxWidth, height : 0..MaxHeight]
InitialSizes == {s \in PhysicalSize : s.width > 0 /\ s.height > 0}
NoSize == [width |-> 0, height |-> 0]

\* wgpu::SwapChainError (the four variants of the wgpu release in use)
SwapChainErrors == {"Timeout", "Outdated", "Lost", "OutOfMemory"}
\* winit::error::ExternalError
ExternalErrors == {"NotSupported", "Os"}
\* imgui_wgpu::RendererError
RendererErrors == {"BadTexture"}
\* Option<imgui::MouseCursor> as returned by ui.mouse_cursor()
MouseCursors == {"None", "Arrow"}

\* Result<(), RenderError>
Ok == [tag |-> "Ok", source |-> "-"]
Err(tag, source) == [tag |-> tag, source |-> source]
NoResult == [tag |-> "-", source |-> "-"]
RenderErrors ==
    {Err("SwapChainError", e) : e \in SwapChainErrors}
    \cup {Err("ImguiFramePrepError", e) : e \in ExternalErrors}
    \cup {Err("ImguiRendererError", e) : e \in RendererErrors}

\* process exit statuses: the event loop's own exit, and a Rust panic
ExitSuccess == 0
PanicExitCode == 101

VARIABLES
    renderer,       \* the Renderer struct: size, swapchain_desc, swapchain, last_frame_ts, last_cursor
    imstate,        \* ImguiState: the delta time last fed to the imgui context
    control_flow,   \* winit's *control_flow
    phase,          \* where the host loop is inside its iteration
    status,         \* "running", "exited" (loop left through Exit), "panicked"
    exit_code,      \* <<>> while running, <<code>> afterwards
    clock,          \* the last reading of Instant::now()
    ev,             \* history: the event the last handler was called with
    pre,            \* history: renderer and control_flow before the last handler
    trace,          \* history: the calls the last handler made, in order
    inputs,         \* history: what the environment gave the last tick
    result,         \* history: what Renderer::render returned in the most recent tick
    after_lost,     \* history: the tick before the most recent tick failed with Lost
    frame,          \* history: the frame the last handler acquired, <<>> if none
    causes,         \* history: which branches asked for termination
    drops,          \* history: consecutive ticks dropped for a transient error
    last_known,     \* history: size of the latest resize event, or the initial size
    resized,        \* history: a Resized or ScaleFactorChanged event has been handled
    acquired_at     \* history: clock reading of the latest tick whose acquire succeeded
                    \*          (the reading taken in Renderer::new before the first one)

vars == <<renderer, imstate, control_flow, phase, status, exit_code, clock,
          ev, pre, trace, inputs, result, after_lost, frame, causes, drops,
          last_known, resized, acquired_at>>

\* ---- Renderer -----------------------------------------------------------

\* device.create_swap_chain(&surface, &desc): a swapchain bound to a snapshot
\* of the descriptor; a new swapchain is valid (not lost).
create_swap_chain(desc) == [desc |-> desc, lost |-> FALSE]

\* the descriptor literal of Renderer::new
SwapChainDescriptor(size) ==
    [usage |-> "OUTPUT_ATTACHMENT",
     format |-> "Bgra8UnormSrgb",
     width |-> size.width,
     height |-> size.height,
     present_mode |-> "Fifo"]

\* Renderer::new, with t the reading of Instant::now()
new(inner_size, t) ==
    LET swapchain_desc == SwapChainDescriptor(inner_size) IN
    [size |-> inner_size,
     swapchain_desc |-> swapchain_desc,
     swapchain |-> create_swap_chain(swapchain_desc),
     last_frame_ts |-> t,
     last_cursor |-> <<>>]

\* Renderer::resize
resize_restarts_timer(self, new_size) ==
    LET s1 == [self EXCEPT !.size = new_size, !.last_frame_ts = 0]
        s2 == [s1 EXCEPT !.swapchain_desc.width = new_size.width]
        s3 == [s2 EXCEPT !.swapchain_desc.height = new_size.height]
        s4 == [s3 EXCEPT !.swapchain = create_swap_chain(s3.swapchain_desc)]
    IN [self |-> s4, trace |-> <<"debug!", "create_swap_chain">>]
resize_stale_desc(self, new_size) ==
    LET s1 == [self EXCEPT !.swapchain_desc.width = self.size.width]
        s2 == [s1 EXCEPT !.swapchain_desc.height = self.size.height]
        s3 == [s2 EXCEPT !.size = new_size]
        s4 == [s3 EXCEPT !.swapchain = create_swap_chain(s3.swapchain_desc)]
    IN [self |-> s4, trace |-> <<"debug!", "create_swap_chain">>]
resize_immediate_mode(self, new_size) ==
    LET s1 == [self EXCEPT !.size = new_size]
        s2 == [s1 EXCEPT !.swapchain_desc =
                  [SwapChainDescriptor(new_size) EXCEPT !.present_mode = "Immediate"]]
        s3 == [s2 EXCEPT !.swapchain = create_swap_chain(s2.swapchain_desc)]
    IN [self |-> s3, trace |-> <<"debug!", "create_swap_chain">>]
resize_keeps_swapchain(self, new_size) ==
    LET s1 == [self EXCEPT !.size = new_size]
        s2 == [s1 EXCEPT !.swapchain_desc.width = new_size.width]
        s3 == [s2 EXCEPT !.swapchain_desc.height = new_size.height]
    IN [self |-> s3, trace |-> <<"debug!">>]
resize_ignored(self, new_size) == [self |-> self, trace |-> <<"debug!">>]
resize(self, new_size) ==
    LET s1 == [self EXCEPT !.size = new_size]
        s2 == [s1 EXCEPT !.swapchain_desc.width = new_size.width]
        s3 == [s2 EXCEPT !.swapchain_desc.height = new_size.height]
        s4 == [s3 EXCEPT !.swapchain = create_swap_chain(s3.swapchain_desc)]
    IN [self |-> s4, trace |-> <<"debug!", "create_swap_chain">>]

\* swapchain.get_current_frame(): what the backend may answer.  A swapchain
\* that has reported Lost stays lost until it is recreated.
get_current_frame(swapchain) ==
    IF swapchain.lost THEN {"Lost"} ELSE {"Ok"} \cup SwapChainErrors

\* the frame handed out by a swapchain has the swapchain's dimensions
SwapChainFrame(swapchain) ==
    [width |-> swapchain.desc.width, height |-> swapchain.desc.height]

\* imstate.ctx.io_mut().update_delta_time(delta_t)
update_delta_time(io, delta_t) == [io EXCEPT !.delta_time = <<delta_t>>]

\* self.last_frame_ts = now
set_last_frame_ts_skipped(self, now) == self
set_last_frame_ts(self, now) == [self EXCEPT !.last_frame_ts = now]

\* the "update mouse cursor if we need to" block of render
update_cursor(self, cursor) ==
    IF self.last_cursor # <<cursor>>
    THEN [self |-> [self EXCEPT !.last_cursor = <<cursor>>],
          trace |-> <<"prepare_render">>]
    ELSE [self |-> self, trace |-> <<>>]

\* the `?` on get_current_frame: render returns the error at once
acquire_failed_feeds_delta(self, io, now, delta_t, e) ==
    [self |-> IF e = "Lost"
              THEN [self EXCEPT !.swapchain.lost = TRUE] ELSE self,
     io |-> update_delta_time(io, delta_t),
     result |-> Err("SwapChainError", e),
     frame |-> <<>>,
     trace |-> <<"now", "update_delta_time", "get_current_frame">>]
acquire_failed_stamps(self, io, now, delta_t, e) ==
    [self |-> IF e = "Lost"
              THEN [self EXCEPT !.swapchain.lost = TRUE, !.last_frame_ts = now]
              ELSE [self EXCEPT !.last_frame_ts = now],
     io |-> io,
     result |-> Err("SwapChainError", e),
     frame |-> <<>>,
     trace |-> <<"now", "get_current_frame">>]
acquire_failed(self, io, now, delta_t, e) ==
    [self |-> IF e = "Lost"
              THEN [self EXCEPT !.swapchain.lost = TRUE] ELSE self,
     io |-> io,
     result |-> Err("SwapChainError", e),
     frame |-> <<>>,
     trace |-> <<"now", "get_current_frame">>]

\* the end of the scope of `frame`: the frame is released when render returns
drop_frame_leaked(tr) == tr
drop_frame(tr) == tr \o <<"drop_frame">>

\* Renderer::render.  now is the reading of Instant::now(); in.acq, in.prep,
\* in.cursor and in.rend are the answers of get_current_frame, prepare_frame,
\* ui.mouse_cursor and the imgui renderer.
render(self, io, now, in) ==
    LET delta_t == now - self.last_frame_ts IN
    IF in.acq # "Ok"
    THEN acquire_failed(self, io, now, delta_t, in.acq)
    ELSE
    LET fr == SwapChainFrame(self.swapchain)
        io1 == update_delta_time(io, delta_t)
        s1 == set_last_frame_ts(self, now)
        t1 == <<"now", "get_current_frame", "update_delta_time",
                "set_last_frame_ts", "prepare_frame">>
    IN
    IF in.prep # "Ok"
    THEN [self |-> s1, io |-> io1,
          result |-> Err("ImguiFramePrepError", in.prep),
          frame |-> <<fr>>,
          trace |-> drop_frame(t1)]
    ELSE
    LET c == update_cursor(s1, in.cursor)
        t2 == t1 \o <<"ui_frame">> \o c.trace
                 \o <<"create_command_encoder", "begin_render_pass", "imgui_render">>
    IN
    IF in.rend # "Ok"
    THEN [self |-> c.self, io |-> io1,
          result |-> Err("ImguiRendererError", in.rend),
          frame |-> <<fr>>,
          trace |-> drop_frame(t2)]
    ELSE [self |-> c.self, io |-> io1,
          result |-> Ok,
          frame |-> <<fr>>,
          trace |-> drop_frame(t2 \o <<"submit">>)]

\* ---- the event-loop callback -------------------------------------------

\* what one arm of the match leaves behind
Arm(self, cf, panicked, cause, tr) ==
    [self |-> self, control_flow |-> cf, panicked |-> panicked,
     cause |-> cause, trace |-> tr]

\* wgpu::SwapChainError::Lost => renderer.resize(renderer.size)
on_lost_dropped(self, cf) == Arm(self, cf, FALSE, {}, <<"error!">>)
on_lost_zero_size(self, cf) ==
    LET rs == resize(self, NoSize) IN
    Arm(rs.self, cf, FALSE, {}, rs.trace)
on_lost(self, cf) ==
    LET rs == resize(self, self.size) IN
    Arm(rs.self, cf, FALSE, {}, rs.trace)

\* wgpu::SwapChainError::OutOfMemory => { error!(..); *control_flow = ControlFlow::Exit; }
on_out_of_memory_continues(self, cf) == Arm(self, cf, FALSE, {"oom"}, <<"error!">>)
on_out_of_memory_panics(self, cf) ==
    Arm(self, cf, TRUE, {"oom"}, <<"error!", "unwrap_panic">>)
on_out_of_memory(self, cf) ==
    Arm(self, "Exit", FALSE, {"oom"}, <<"error!", "set_exit">>)

\* e => error!("swapchain error (not fatal, just framedrop): {:?}", e)
on_framedrop_exits(self, cf) == Arm(self, "Exit", FALSE, {}, <<"error!", "set_exit">>)
on_framedrop(self, cf) == Arm(self, cf, FALSE, {}, <<"error!">>)

\* r @ Err(_) => r.unwrap()
on_other_error_logged(self, cf) == Arm(self, cf, FALSE, {"draw"}, <<"error!">>)
on_other_error(self, cf) == Arm(self, cf, TRUE, {"draw"}, <<"unwrap_panic">>)

\* the match on renderer.render(..) in the RedrawRequested arm; the arms are
\* tried in the order they are written
on_render_result_oom_first(self, cf, r) ==
    IF r.tag = "Ok" THEN Arm(self, cf, FALSE, {}, <<>>)
    ELSE IF r.tag = "SwapChainError"
    THEN IF r.source \in {"Lost", "OutOfMemory"} THEN on_out_of_memory(self, cf)
         ELSE on_framedrop(self, cf)
    ELSE on_other_error(self, cf)
on_render_result(self, cf, r) ==
    IF r.tag = "Ok" THEN Arm(self, cf, FALSE, {}, <<>>)
    ELSE IF r.tag = "SwapChainError"
    THEN IF r.source = "Lost" THEN on_lost(self, cf)
         ELSE IF r.source = "OutOfMemory" THEN on_out_of_memory(self, cf)
         ELSE on_framedrop(self, cf)
    ELSE on_other_error(self, cf)

\* the part of the environment's answers a tick actually consumed
Consumed(in) ==
    IF in.acq # "Ok" THEN [in EXCEPT !.prep = "-", !.cursor = "-", !.rend = "-"]
    ELSE IF in.prep # "Ok" THEN [in EXCEPT !.cursor = "-", !.rend = "-"]
    ELSE in
\* everything the environment can answer during one tick
TickInputs(swapchain) ==
    {Consumed([acq |-> acq, prep |-> prep, cursor |-> cursor, rend |-> rend]) :
        acq \in get_current_frame(swapchain),
        prep \in {"Ok"} \cup ExternalErrors,
        cursor \in MouseCursors,
        rend \in {"Ok"} \cup RendererErrors}
NoInputs == [acq |-> "-", prep |-> "-", cursor |-> "-", rend |-> "-"]

Transient(e) == e \in SwapChainErrors \ {"Lost", "OutOfMemory"}

Event(type, size) == [type |-> type, size |-> size]
Snapshot ==
    [renderer |-> renderer, control_flow |-> control_flow, resized |-> resized,
     acquired_at |-> acquired_at, clock |-> clock]

\* an event handler that does not tick: history of the tick stays
NoTick(e, tr) ==
    /\ ev' = e
    /\ pre' = Snapshot
    /\ trace' = tr \o <<"handle_event">>
    /\ inputs' = NoInputs
    /\ frame' = <<>>
    /\ UNCHANGED <<imstate, clock, result, after_lost, drops, status, exit_code,
                   acquired_at>>

Init ==
    /\ \E inner_size \in InitialSizes :
         /\ renderer = new(inner_size, 0)
         /\ last_known = inner_size
         /\ ev = Event("Init", inner_size)
    /\ imstate = [delta_time |-> <<>>]
    /\ control_flow = "Poll"
    /\ phase = "events"
    /\ status = "running"
    /\ exit_code = <<>>
    /\ clock = 0
    /\ resized = FALSE
    /\ acquired_at = 0
    /\ pre = [renderer |-> renderer, control_flow |-> control_flow,
              resized |-> FALSE, acquired_at |-> 0, clock |-> 0]
    /\ trace = <<>>
    /\ inputs = NoInputs
    /\ result = NoResult
    /\ after_lost = FALSE
    /\ frame = <<>>
    /\ causes = {}
    /\ drops = 0

\* WindowEvent::CloseRequested => *control_flow = ControlFlow::Exit
CloseRequested ==
    /\ status = "running" /\ phase = "events"
    /\ control_flow' = "Exit"
    /\ causes' = causes \cup {"close"}
    /\ NoTick(Event("CloseRequested", NoSize), <<"set_exit">>)
    /\ UNCHANGED <<renderer, phase, last_known, resized>>

\* WindowEvent::Resized(size) => renderer.resize(*size)
Resized ==
    /\ status = "running" /\ phase = "events"
    /\ \E size \in PhysicalSize :
         LET rs == resize(renderer, size) IN
         /\ renderer' = rs.self
         /\ last_known' = size
         /\ resized' = TRUE
         /\ NoTick(Event("Resized", size), rs.trace)
    /\ UNCHANGED <<control_flow, phase, causes>>

\* WindowEvent::ScaleFactorChanged {new_inner_size, ..} => renderer.resize(**new_inner_size)
ScaleFactorChanged ==
    /\ status = "running" /\ phase = "events"
    /\ \E size \in PhysicalSize :
         LET rs == resize(renderer, size) IN
         /\ renderer' = rs.self
         /\ last_known' = size
         /\ resized' = TRUE
         /\ NoTick(Event("ScaleFactorChanged", size), rs.trace)
    /\ UNCHANGED <<control_flow, phase, causes>>

\* any other window event: the `_ => ()` arm
OtherWindowEvent ==
    /\ status = "running" /\ phase = "events"
    /\ NoTick(Event("Other", NoSize), <<>>)
    /\ UNCHANGED <<renderer, control_flow, phase, causes, last_known, resized>>

\* Event::MainEventsCleared => window.request_redraw()
MainEventsCleared ==
    /\ status = "running" /\ phase = "events"
    /\ phase' = "redraw"
    /\ NoTick(Event("MainEventsCleared", NoSize), <<"request_redraw">>)
    /\ UNCHANGED <<renderer, control_flow, causes, last_known, resized>>

\* Event::RedrawRequested: one tick
RedrawRequested ==
    /\ status = "running" /\ phase = "redraw"
    /\ \E now \in clock..MaxTime, in \in TickInputs(renderer.swapchain) :
         LET rr == render(renderer, imstate, now, in)
             d == on_render_result(rr.self, control_flow, rr.result)
         IN
         /\ clock' = now
         /\ renderer' = d.self
         /\ imstate' = rr.io
         /\ control_flow' = d.control_flow
         /\ status' = IF d.panicked THEN "panicked" ELSE "running"
         /\ exit_code' = IF d.panicked THEN <<PanicExitCode>> ELSE <<>>
         /\ trace' = rr.trace \o d.trace
                       \o (IF d.panicked THEN <<>> ELSE <<"handle_event">>)
         /\ inputs' = in
         /\ result' = rr.result
         /\ after_lost' = (result = Err("SwapChainError", "Lost"))
         /\ frame' = rr.frame
         /\ acquired_at' = IF in.acq = "Ok" THEN now ELSE acquired_at
         /\ causes' = causes \cup d.cause
         /\ drops' = IF rr.result.tag = "SwapChainError" /\ Transient(rr.result.source)
                     THEN (IF drops < MaxDrops THEN drops + 1 ELSE MaxDrops)
                     ELSE 0
    /\ ev' = Event("RedrawRequested", NoSize)
    /\ pre' = Snapshot
    /\ phase' = "cleared"
    /\ UNCHANGED <<last_known, resized>>

\* Event::RedrawEventsCleared (the `_ => ()` arm); the iteration ends and the
\* host loop looks at control_flow
RedrawEventsCleared ==
    /\ status = "running" /\ phase = "cleared"
    /\ phase' = IF control_flow = "Exit" THEN "destroy" ELSE "events"
    /\ NoTick(Event("RedrawEventsCleared", NoSize), <<>>)
    /\ UNCHANGED <<renderer, control_flow, causes, last_known, resized>>

\* Event::LoopDestroyed (the `_ => ()` arm), then event_loop.run ends the process
LoopDestroyed ==
    /\ status = "running" /\ phase = "destroy"
    /\ status' = "exited"
    /\ exit_code' = <<ExitSuccess>>
    /\ ev' = Event("LoopDestroyed", NoSize)
    /\ pre' = Snapshot
    /\ trace' = <<"handle_event">>
    /\ inputs' = NoInputs
    /\ frame' = <<>>
    /\ UNCHANGED <<renderer, imstate, control_flow, phase, clock, result,
                   after_lost, drops, causes, last_known, resized, acquired_at>>

Next ==
    \/ CloseRequested
    \/ Resized
    \/ ScaleFactorChanged
    \/ OtherWindowEvent
    \/ MainEventsCleared
    \/ RedrawRequested
    \/ RedrawEventsCleared
    \/ LoopDestroyed

Spec == Init /\ [][Next]_vars

TypeOK ==
    /\ renderer.size \in PhysicalSize
    /\ renderer.last_frame_ts \in 0..MaxTime
    /\ control_flow \in {"Poll", "Exit"}
    /\ phase \in {"events", "redraw", "cleared", "destroy"}
    /\ status \in {"running", "exited", "panicked"}
    /\ clock \in 0..MaxTime
    /\ drops \in 0..MaxDrops
    /\ result \in {NoResult, Ok} \cup RenderErrors

\* ---- helpers of the properties ------------------------------------------
Has(seq, x) == \E i \in DOMAIN seq : seq[i] = x
Count(seq, x) == Cardinality({i \in DOMAIN seq : seq[i] = x})
IsTick == ev.type = "RedrawRequested"
IsResizeEvent == ev.type \in {"Resized", "ScaleFactorChanged"}
ZeroSized(s) == s.width = 0 \/ s.height = 0
Lost == Err("SwapChainError", "Lost")
OutOfMemory == Err("SwapChainError", "OutOfMemory")
DrawFailed == result.tag \in {"ImguiFramePrepError", "ImguiRendererError"}

C2_DroppedFrameKeepsTimestamp ==
    /\ (IsTick /\ inputs.acq \in {"Lost", "Outdated", "Timeout"}) =>
          renderer.last_frame_ts = pre.renderer.last_frame_ts
    /\ renderer.last_frame_ts # pre.renderer.last_frame_ts =>
          (IsTick /\ inputs.acq = "Ok")

C2_Witness ==
    /\ IsTick /\ result = Lost
    /\ Has(trace, "create_swap_chain")
    /\ clock > renderer.last_frame_ts

\* ---- C3 ------------------------------------------------------------------
\* C3: the descriptor's width and height are never zero; a Resized or
\* ScaleFactorChanged event with a zero width or height rebuilds nothing and
\* leaves swapchain_desc and size unchanged.
C3_NeverZeroSized ==
    /\ renderer.swapchain_desc.width # 0
    /\ renderer.swapchain_desc.height # 0
    /\ (IsResizeEvent /\ ZeroSized(ev.size)) =>
          /\ ~Has(trace, "create_swap_chain")
          /\ renderer.swapchain_desc = pre.renderer.swapchain_desc
          /\ renderer.size = pre.renderer.size

\* ---- C4 ------------------------------------------------------------------
\* C4: while the last reported window size is zero-sized, a redraw tick does
\* nothing: no acquire, no draw, no submit, no error and no shutdown.
C4_ZeroSizedTickIsNoOp ==
    (IsTick /\ ZeroSized(last_known)) =>
        /\ trace = <<"handle_event">>
        /\ renderer = pre.renderer
        /\ control_flow = pre.control_flow
        /\ status = "running"

C6_NoTickAfterOutOfMemory ==
    [][ /\ "oom" \in causes =>
              /\ ev'.type \in {"RedrawEventsCleared", "LoopDestroyed"}
              /\ trace' = <<"handle_event">>
              /\ renderer' = renderer
        /\ "oom" \in causes' =>
              /\ control_flow' = "Exit"
              /\ phase' \in {"cleared", "destroy"}
      ]_vars

C6_Witness ==
    /\ "oom" \in causes
    /\ status = "exited"

\* ---- C7 ------------------------------------------------------------------
\* C7: the exit status is 0 when only a close request ended the process and
\* non-zero when a fatal classification (OutOfMemory, a drawing error) did.
C7_ExitStatus ==
    status # "running" =>
        /\ causes = {"close"} => exit_code = <<0>>
        /\ (causes # {} /\ "close" \notin causes) => exit_code # <<0>>

\* ---- C8 ------------------------------------------------------------------
\* C8: a tick whose acquire fails with Outdated or Timeout only logs: it
\* draws nothing, submits nothing, rebuilds nothing, leaves the renderer and
\* the shutdown flag as they were and ends normally, however many such ticks
\* came right before it.
C8_TransientAbsorbed ==
    (IsTick /\ result.tag = "SwapChainError"
            /\ result.source \in {"Outdated", "Timeout"}) =>
        /\ trace = <<"now", "get_current_frame", "error!", "handle_event">>
        /\ renderer = pre.renderer
        /\ control_flow = pre.control_flow
        /\ frame = <<>>
        /\ status = "running"
        /\ exit_code = <<>>
        /\ drops >= 1

C8_Witness ==
    /\ IsTick /\ drops = MaxDrops
    /\ result.source \in {"Outdated", "Timeout"}
    /\ control_flow = "Poll"

\* ---- C9 ------------------------------------------------------------------
\* the policy table of the claim
C9_Policy(e) ==
    IF e = Lost THEN "Reconfigure"
    ELSE IF e = OutOfMemory THEN "Fatal"
    ELSE IF e.tag = "SwapChainError" THEN "Retry"
    ELSE "Fatal"

\* the verdicts the last tick acted on, read off what the handler did
C9_Verdicts ==
    {v \in {"Retry", "Reconfigure", "Fatal"} :
        \/ v = "Reconfigure" /\ Has(trace, "create_swap_chain")
        \/ v = "Fatal" /\ (Has(trace, "set_exit") \/ Has(trace, "unwrap_panic"))
        \/ v = "Retry" /\ ~Has(trace, "create_swap_chain")
                       /\ ~Has(trace, "set_exit") /\ ~Has(trace, "unwrap_panic")
                       /\ trace[Len(trace)] = "handle_event"}

\* C9: every error Renderer::render returns gets exactly one verdict, the one
\* of the policy table.
C9_ClassifierTotal ==
    (IsTick /\ result # Ok) =>
        /\ result \in RenderErrors
        /\ C9_Verdicts = {C9_Policy(result)}

C9_Witness ==
    /\ IsTick /\ result = Err("ImguiRendererError", "BadTexture")
    /\ C9_Verdicts = {"Fatal"}

\* ---- C10 -----------------------------------------------------------------
\* C10: when prepare_frame or the imgui renderer fails after a successful
\* acquire, render returns that very error (in its RenderError variant),
\* nothing is submitted, the process ends in a panic, and no handler runs
\* after it.
C10_DrawErrorFatal ==
    /\ [](  (IsTick /\ inputs.acq = "Ok"
                    /\ (inputs.prep # "Ok" \/ inputs.rend # "Ok")) =>
              /\ result = IF inputs.prep # "Ok"
                          THEN Err("ImguiFramePrepError", inputs.prep)
                          ELSE Err("ImguiRendererError", inputs.rend)
              /\ ~Has(trace, "submit")
              /\ ~Has(trace, "handle_event")
              /\ status = "panicked"
              /\ exit_code = <<PanicExitCode>> )
    /\ [][status # "panicked"]_vars

C10_Witness ==
    /\ status = "panicked"
    /\ result = Err("ImguiFramePrepError", "Os")
    /\ Has(trace, "drop_frame")

\* ---- helpers of the later properties ------------------------------------
Last(seq) == seq[Len(seq)]
\* the position of the first call x in seq, 0 when there is none
Pos(seq, x) ==
    IF Has(seq, x) THEN CHOOSE i \in DOMAIN seq :
                            seq[i] = x /\ \A j \in DOMAIN seq : seq[j] = x => i <= j
    ELSE 0

C12_ResizeBeforeAcquire ==
    /\ IsTick =>
          /\ pre.renderer.swapchain.desc.width = last_known.width
          /\ pre.renderer.swapchain.desc.height = last_known.height
          /\ frame # <<>> => frame = <<last_known>>
    /\ IsResizeEvent =>
          /\ last_known = ev.size
          /\ renderer.swapchain.desc.width = ev.size.width
          /\ renderer.swapchain.desc.height = ev.size.height
          /\ status = "running"
          /\ control_flow = pre.control_flow
          /\ Last(trace) = "handle_event"

C12_Witness ==
    /\ IsTick /\ resized
    /\ frame = <<last_known>>
    /\ last_known = [width |-> MaxWidth, height |-> MaxHeight]
    /\ result = Ok

\* ---- C13 -----------------------------------------------------------------
\* C13: a tick that acquired a frame releases it exactly once before render
\* returns, on the success path (after submit) and on each error path, hence
\* before the handler rebuilds the swapchain, panics or ends; a tick that
\* acquired none releases none; no other handler acquires.
C13_OneFrameInFlight ==
    /\ Count(trace, "get_current_frame") <= 1
    /\ Count(trace, "drop_frame") = (IF frame # <<>> THEN 1 ELSE 0)
    /\ frame # <<>> =>
          /\ IsTick /\ inputs.acq = "Ok"
          /\ Pos(trace, "get_current_frame") < Pos(trace, "drop_frame")
          /\ Has(trace, "submit") => Pos(trace, "submit") < Pos(trace, "drop_frame")
          /\ Has(trace, "create_swap_chain") =>
                Pos(trace, "drop_frame") < Pos(trace, "create_swap_chain")
          /\ Has(trace, "unwrap_panic") =>
                Pos(trace, "drop_frame") < Pos(trace, "unwrap_panic")
          /\ Has(trace, "handle_event") =>
                Pos(trace, "drop_frame") < Pos(trace, "handle_event")
    /\ ~IsTick => ~Has(trace, "get_current_frame")
    /\ (IsTick /\ inputs.acq = "Ok") => frame # <<>>

C13_Witness ==
    /\ IsTick /\ result = Err("ImguiRendererError", "BadTexture")
    /\ frame # <<>>
    /\ Has(trace, "drop_frame")

\* ---- C14 -----------------------------------------------------------------
\* C14: resize is idempotent.  After a resize to a size, a second resize to
\* the same size gives the same Renderer (size, swapchain_desc, swapchain,
\* last_frame_ts, last_cursor); an acquire that follows may answer the same
\* and hands out a frame of that size.
C14_ResizeIdempotent ==
    IsResizeEvent =>
        /\ resize(renderer, ev.size).self = renderer
        /\ get_current_frame(resize(renderer, ev.size).self.swapchain)
              = get_current_frame(renderer.swapchain)
        /\ SwapChainFrame(renderer.swapchain) = ev.size
        /\ (pre.resized /\ pre.renderer.size = ev.size) =>
              renderer = pre.renderer

C14_Witness ==
    /\ IsResizeEvent /\ pre.resized
    /\ pre.renderer.size = ev.size
    /\ ev.size \in InitialSizes
    /\ renderer = pre.renderer
    /\ Has(trace, "create_swap_chain")

\* ---- C15 -----------------------------------------------------------------
\* C15: swapchain_desc.width and .height equal the size of the latest
\* Resized / ScaleFactorChanged event, or the initial inner size when there
\* was none; a tick, whatever its outcome, leaves them as they were.
C15_DescMirrorsWindow ==
    /\ renderer.swapchain_desc.width = last_known.width
    /\ renderer.swapchain_desc.height = last_known.height
    /\ IsResizeEvent => last_known = ev.size
    /\ ~resized => last_known = pre.renderer.size
    /\ IsTick =>
          /\ renderer.swapchain_desc.width = pre.renderer.swapchain_desc.width
          /\ renderer.swapchain_desc.height = pre.renderer.swapchain_desc.height

C15_Witness ==
    /\ IsTick /\ result = Lost /\ resized
    /\ last_known \in InitialSizes
    /\ renderer.swapchain_desc.width = last_known.width
    /\ renderer.swapchain_desc.height = last_known.height

\* ---- C16 -----------------------------------------------------------------
\* the drawing steps of a tick
C16_DrawingSteps ==
    {"update_delta_time", "set_last_frame_ts", "prepare_frame", "ui_frame",
     "prepare_render", "create_command_encoder", "begin_render_pass",
     "imgui_render"}

\* C16: in a tick, drawing starts only after a successful acquire and submit
\* comes only after the drawing succeeded; a tick whose acquire failed runs
\* no drawing step (no delta-time update, no prepare_frame, no cursor update)
\* and no submit, and goes on to exactly one of: rebuild (Lost), shutdown
\* flag (OutOfMemory), nothing (any other error).
C16_TickOrder ==
    IsTick =>
        /\ trace[1] = "now" /\ trace[2] = "get_current_frame"
        /\ \A x \in C16_DrawingSteps :
              Has(trace, x) =>
                 (inputs.acq = "Ok" /\ Pos(trace, "get_current_frame") < Pos(trace, x))
        /\ Has(trace, "submit") =>
              /\ result = Ok
              /\ inputs.prep = "Ok" /\ inputs.rend = "Ok"
              /\ Pos(trace, "prepare_frame") < Pos(trace, "imgui_render")
              /\ Pos(trace, "imgui_render") < Pos(trace, "submit")
        /\ result = Ok => Has(trace, "submit")
        /\ inputs.acq # "Ok" =>
              /\ ~Has(trace, "submit")
              /\ renderer.last_cursor = pre.renderer.last_cursor
              /\ renderer.last_frame_ts = pre.renderer.last_frame_ts
              /\ Has(trace, "create_swap_chain") <=> inputs.acq = "Lost"
              /\ Has(trace, "set_exit") <=> inputs.acq = "OutOfMemory"
              /\ ~Has(trace, "unwrap_panic")
              /\ Len(trace) = (IF inputs.acq = "Lost" THEN 5
                               ELSE IF inputs.acq = "OutOfMemory" THEN 5 ELSE 4)

C16_Witness ==
    /\ IsTick /\ result = Ok
    /\ Has(trace, "prepare_render")
    /\ Has(trace, "submit")

\* ---- C17 -----------------------------------------------------------------
\* C17: the descriptor, and the descriptor the live swapchain was built
\* from, always have format Bgra8UnormSrgb, present mode Fifo and usage
\* OUTPUT_ATTACHMENT; a resize (event, scale-factor change or Lost recovery)
\* changes nothing of the Renderer but size, width, height and the swapchain.
C17_FormatAndModeConstant ==
    /\ renderer.swapchain_desc.format = "Bgra8UnormSrgb"
    /\ renderer.swapchain_desc.present_mode = "Fifo"
    /\ renderer.swapchain_desc.usage = "OUTPUT_ATTACHMENT"
    /\ renderer.swapchain.desc.format = "Bgra8UnormSrgb"
    /\ renderer.swapchain.desc.present_mode = "Fifo"
    /\ renderer.swapchain.desc.usage = "OUTPUT_ATTACHMENT"
    /\ (IsResizeEvent \/ (IsTick /\ result = Lost)) =>
          /\ Has(trace, "create_swap_chain")
          /\ renderer.last_frame_ts = pre.renderer.last_frame_ts
          /\ renderer.last_cursor = pre.renderer.last_cursor
          /\ renderer.swapchain_desc =
                [pre.renderer.swapchain_desc EXCEPT !.width = renderer.size.width,
                                                    !.height = renderer.size.height]

C17_Witness ==
    /\ ev.type = "ScaleFactorChanged"
    /\ ev.size # pre.renderer.size
    /\ renderer.size = ev.size
    /\ renderer.swapchain_desc.present_mode = "Fifo"

\* ---- C18 -----------------------------------------------------------------
\* C18: after every handler renderer.size equals the descriptor's width and
\* height and the live swapchain is a valid one created from the current
\* descriptor; a handler that changed the descriptor replaced the swapchain,
\* and the swapchain a tick acquires from was built from the descriptor of
\* that moment.
C18_SwapchainFollowsDescriptor ==
    /\ renderer.size.width = renderer.swapchain_desc.width
    /\ renderer.size.height = renderer.swapchain_desc.height
    /\ renderer.swapchain.desc = renderer.swapchain_desc
    /\ ~renderer.swapchain.lost
    /\ renderer.swapchain_desc # pre.renderer.swapchain_desc =>
          Has(trace, "create_swap_chain")
    /\ IsTick =>
          /\ pre.renderer.swapchain.desc = pre.renderer.swapchain_desc
          /\ ~pre.renderer.swapchain.lost

C18_Witness ==
    /\ IsResizeEvent
    /\ renderer.swapchain_desc # pre.renderer.swapchain_desc
    /\ renderer.swapchain.desc = renderer.swapchain_desc

\* ---- C19 -----------------------------------------------------------------
\* C19: on a tick whose acquire succeeds the delta time fed to imgui is the
\* tick's reading of the clock minus the reading of the latest earlier tick
\* whose acquire succeeded (the reading of Renderer::new when there is none);
\* it is never negative, and after dropped ticks it spans them all, so it is
\* at least the interval since the last (dropped) tick.
C19_ElapsedSinceLastAcquire ==
    /\ renderer.last_frame_ts = acquired_at
    /\ imstate.delta_time # <<>> => imstate.delta_time[1] >= 0
    /\ (IsTick /\ inputs.acq = "Ok") =>
          /\ imstate.delta_time = <<clock - pre.acquired_at>>
          /\ acquired_at = clock
          /\ pre.acquired_at <= pre.clock /\ pre.clock <= clock
          /\ imstate.delta_time[1] >= clock - pre.clock
    /\ (IsTick /\ inputs.acq # "Ok") => acquired_at = pre.acquired_at

C19_Witness ==
    /\ IsTick /\ inputs.acq = "Ok" /\ after_lost
    /\ pre.clock > pre.acquired_at
    /\ clock > pre.clock
    /\ imstate.delta_time = <<clock - pre.acquired_at>>
====
